---- MODULE Spec2Model ----
(***************************************************************************)
(* A model of the Miner of src/miner.js: the transaction pool, the chain   *)
(* and its transaction index, the peer list, the cooperative mining loop   *)
(* (main: unblock, createGenesisIfNeeded, flushTransactionPool,            *)
(* computeHash, main ...) and the inbound handlers (addTransactionToPool,  *)
(* receiveNewBlockchain, addNodes).  Every callback of the event loop is   *)
(* one atomic action; the callbacks interleave in any order.               *)
(***************************************************************************)
EXTENDS Integers, Sequences, FiniteSets, TLC

VARIABLES
    transaction_pool,   \* this.transaction_pool: sequence of transactions
    transaction_map,    \* this.transaction_map: the transactions committed
    blockchain,         \* this.blockchain: sequence of blocks, oldest first
    node_list,          \* this.node_list: sequence of peers
    actively_mining,    \* this.actively_mining
    pc,                 \* where the promise chain of main() stands
    batch,              \* flushTransaction promises not yet run
    exports,            \* per contacted peer: the state of its connection
    completed_exports,  \* the closure variable of computeHash
    last,               \* history: the callback that ran last, its outcome
    pre_flush           \* history: the index and latest block when the
                        \* running flush drained the pool

vars == <<transaction_pool, transaction_map, blockchain, node_list,
          actively_mining, pc, batch, exports, completed_exports, last,
          pre_flush>>

-----------------------------------------------------------------------------
(* Bounds of the model.                                                    *)
MaxPool == 2
MaxChain == 3

\* The hash target: one hash value in Difficulty is "000...".
Difficulty == 2

-----------------------------------------------------------------------------
(* Inputs.  Transactions are opaque to the miner: "t1" is a transfer the   *)
(* network may deliver any number of times (the validator refuses it once  *)
(* it is spent), "NEW_COIN" the coinbase the miner creates for itself.     *)
NetworkTransactions == {"t1"}

NodeA == [address |-> "h1", port |-> 1337]
NodeB == [address |-> "h2", port |-> 1338]

NodeArgs == { <<NodeA>>, <<NodeA, NodeB, NodeA>> }

NoOp == [op |-> "new", result |-> "", tx |-> "", count |-> 0]

\* A bug: the first validation to settle ends the others.
RemoveAll(s, i) == <<>>

\* The promises of the batch but the one that settles.
RemoveAt(s, i) == SubSeq(s, 1, i - 1) \o SubSeq(s, i + 1, Len(s))

RECURSIVE SeqToSet(_)
SeqToSet(s) == IF s = <<>> THEN {} ELSE {Head(s)} \cup SeqToSet(Tail(s))

-----------------------------------------------------------------------------
(* The external libraries, as far as the miner relies on them.             *)

\* Block.computeHash: a deterministic function of a block's contents and
\* nonce; a hash "starts with 000" when it is 0 here.
computeBlockHash(block) == (block.nonce + Len(block.data) + 1) % Difficulty

meetsTarget(block) == computeBlockHash(block) = 0

\* Block.create("GENESIS").  The library decides whether the sentinel is
\* stored as the block's data (a string: data.push and data.map throw) or
\* beside an empty transaction list; dataIsList is that choice.
createGenesis(dataIsList) ==
    [tag |-> "GENESIS", own |-> TRUE, dataIsList |-> dataIsList,
     data |-> <<>>, nonce |-> 0, previous |-> -1]

\* Block.createFrom(latest): an empty block that extends latest.
createFrom(latest) ==
    [tag |-> "BLOCK", own |-> TRUE, dataIsList |-> TRUE,
     data |-> <<>>, nonce |-> 0, previous |-> computeBlockHash(latest)]

\* Transaction.verify(transaction, map, block): block holds the tentative
\* append of the transaction.  A coinbase spends nothing; any other
\* transaction is refused when already committed or when staged twice in
\* the block.
verify(transaction, map, block) ==
    \/ transaction = "NEW_COIN"
    \/ /\ transaction \notin map
       /\ Cardinality({i \in DOMAIN block.data : block.data[i] = transaction}) = 1

\* A bug: an accepted transaction is not recorded in the index.
addToNothing(transaction, map) == map

\* Transaction.addToMap(transaction, map).
addToMap(transaction, map) == map \cup {transaction}

ChainTransactions(chain) ==
    UNION { SeqToSet(chain[i].data) : i \in DOMAIN chain }

\* Block.getVerificationMetadata(chain): validity of the chain and the
\* transaction index implied by replaying its transactions.
getVerificationMetadata(chain) ==
    [valid |->
        /\ Len(chain) > 0
        /\ \A i \in DOMAIN chain :
              /\ meetsTarget(chain[i])
              /\ i > 1 => chain[i].previous = computeBlockHash(chain[i - 1]),
     transaction_map |-> ChainTransactions(chain)]

\* The nonce that solves a block with the given data.
SolvingNonce(data) == Difficulty - ((Len(data) + 1) % Difficulty)

PeerBlock(tag, data, solved) ==
    [tag |-> tag, own |-> FALSE, dataIsList |-> TRUE, data |-> data,
     nonce |-> IF solved THEN SolvingNonce(data) ELSE SolvingNonce(data) + 1,
     previous |-> IF tag = "GENESIS" THEN -1 ELSE 0]

\* A chain sent by a peer: n blocks, "t1" committed in the second block or
\* not, the last block solved or not.
PeerChain(n, withTx, solved) ==
    [i \in 1..n |->
        PeerBlock(IF i = 1 THEN "GENESIS" ELSE "BLOCK",
                  IF withTx /\ i = 2 THEN <<"t1">> ELSE <<>>,
                  solved \/ i < n)]

\* The chains peers send: a valid one of each length from two blocks on,
\* the shortest with "t1" committed, and a longest one whose last block is
\* unsolved.
Candidates ==
    { PeerChain(n, n = 2, TRUE) : n \in 2..MaxChain }
        \cup { PeerChain(MaxChain, FALSE, FALSE) }

-----------------------------------------------------------------------------
(* The miner.                                                              *)

Op(name, result) == [NoOp EXCEPT !.op = name, !.result = result]

\* The constructor.
Init ==
    /\ transaction_pool = <<>>
    /\ transaction_map = {}
    /\ blockchain = <<>>
    /\ node_list = <<>>
    /\ actively_mining = FALSE
    /\ pc = "constructed"
    /\ batch = <<>>
    /\ exports = <<>>
    /\ completed_exports = 0
    /\ last = NoOp
    /\ pre_flush = <<>>

\* start: the server listens and main() is called, which yields first.
start ==
    /\ pc = "constructed"
    /\ pc' = "unblock"
    /\ last' = Op("start", "")
    /\ UNCHANGED <<transaction_pool, transaction_map, blockchain, node_list,
                   actively_mining, batch, exports, completed_exports,
                   pre_flush>>

\* The runtime toggle (the field is written from outside the miner).
setActivelyMining(on) ==
    /\ actively_mining # on
    /\ actively_mining' = on
    /\ last' = Op("setActivelyMining", "")
    /\ UNCHANGED <<transaction_pool, transaction_map, blockchain, node_list,
                   pc, batch, exports, completed_exports,
                   pre_flush>>

\* A bug: the nodes are compared as objects, and no two are the same.
sameObject(node, our_node) == FALSE

\* The test of addNodes for one of our nodes.
sameNode(node, our_node) ==
    node.address = our_node.address /\ node.port = our_node.port

\* The body of nodes.forEach for one node.
addNode(list, node) ==
    IF \E i \in DOMAIN list : sameNode(node, list[i])
    THEN list
    ELSE Append(list, node)

RECURSIVE addAll(_, _)
addAll(list, nodes) ==
    IF nodes = <<>> THEN list
    ELSE addAll(addNode(list, Head(nodes)), Tail(nodes))

addNodes(nodes) ==
    /\ node_list' = addAll(node_list, nodes)
    /\ last' = Op("addNodes", IF node_list' = node_list THEN "unchanged"
                               ELSE "added")
    /\ UNCHANGED <<transaction_pool, transaction_map, blockchain,
                   actively_mining, pc, batch, exports, completed_exports,
                   pre_flush>>

addTransactionToPool(transaction) ==
    /\ Len(transaction_pool) < MaxPool
    /\ transaction_pool' = Append(transaction_pool, transaction)
    /\ last' = Op("addTransactionToPool", "")
    /\ UNCHANGED <<transaction_map, blockchain, node_list, actively_mining,
                   pc, batch, exports, completed_exports,
                   pre_flush>>

latestBlock(chain) == chain[Len(chain)]

\* The chain with its latest block replaced.
withLatest(chain, block) == [chain EXCEPT ![Len(chain)] = block]

\* A bug: the genesis block is created on every cycle.
genesisAlways(chain) == TRUE

\* createGenesisIfNeeded, run when the unblock of main() resolves.
genesisNeeded(chain) == Len(chain) = 0

createGenesisIfNeeded ==
    /\ pc = "unblock"
    /\ IF genesisNeeded(blockchain)
       THEN /\ \E dataIsList \in BOOLEAN :
                  blockchain' = << createGenesis(dataIsList) >>
            /\ transaction_map' = {}
       ELSE UNCHANGED <<blockchain, transaction_map>>
    /\ pc' = "flush"
    /\ last' = Op("createGenesisIfNeeded",
                   IF genesisNeeded(blockchain) THEN "created" ELSE "kept")
    /\ UNCHANGED <<transaction_pool, node_list, actively_mining, batch,
                   exports, completed_exports, pre_flush>>

\* A bug: the pool is not reset when the batch is captured.
flushKeepingPool ==
    /\ pc = "flush"
    /\ batch' = transaction_pool
    /\ pc' = "waitForAll"
    /\ last' = Op("flushTransactionPool", "")
    /\ pre_flush' = <<transaction_map, latestBlock(blockchain)>>
    /\ UNCHANGED <<transaction_pool, transaction_map, blockchain, node_list,
                   actively_mining, exports, completed_exports>>

\* flushTransactionPool: one promise per pooled transaction, the pool reset.
flushTransactionPool ==
    /\ pc = "flush"
    /\ batch' = transaction_pool
    /\ transaction_pool' = <<>>
    /\ pc' = "waitForAll"
    /\ last' = Op("flushTransactionPool", "")
    /\ pre_flush' = <<transaction_map, latestBlock(blockchain)>>
    /\ UNCHANGED <<transaction_map, blockchain, node_list, actively_mining,
                   exports, completed_exports>>

\* The block as Transaction.verify sees it: with the tentative push.
tentative(block, transaction) ==
    [block EXCEPT !.data = Append(block.data, transaction)]

\* A bug: every transaction of the batch is kept.
acceptsAll(transaction, map, block) == TRUE

\* Whether flushTransaction keeps the transaction.
accepts(transaction, map, block) ==
    verify(transaction, map, tentative(block, transaction))

\* flushTransaction: the callback of one promise of the batch.  The unblock
\* of each promise resolves in no fixed order.  On a latest block whose data
\* is no list the push throws and the promise is rejected.
flushTransaction(i) ==
    /\ pc = "waitForAll"
    /\ i \in DOMAIN batch
    /\ batch' = RemoveAt(batch, i)
    /\ LET transaction == batch[i]
           block == latestBlock(blockchain)
       IN  IF ~block.dataIsList
           THEN /\ last' = [Op("flushTransaction", "threw") EXCEPT
                               !.tx = transaction]
                /\ UNCHANGED <<transaction_map, blockchain>>
           ELSE IF accepts(transaction, transaction_map, block)
                   THEN /\ last' = [Op("flushTransaction", "accepted")
                                       EXCEPT !.tx = transaction]
                        /\ transaction_map' =
                               addToMap(transaction, transaction_map)
                        /\ blockchain' = withLatest(blockchain,
                               tentative(block, transaction))
                   ELSE /\ last' = [Op("flushTransaction", "rejected")
                                       EXCEPT !.tx = transaction]
                        /\ UNCHANGED <<transaction_map, blockchain>>
    /\ UNCHANGED <<transaction_pool, node_list, actively_mining, pc,
                   exports, completed_exports, pre_flush>>

createNewCoin == "NEW_COIN"

\* A bug: no block is pushed.
pushedNothing(chain) == chain

\* pushNewBlock, as the chain and the pool it leaves.
pushedChain(chain) == Append(chain, createFrom(latestBlock(chain)))

pushedPool(pool) == Append(pool, createNewCoin)

\* A bug: a candidate of the same length wins too.
longerOrEqual(candidate, chain) == Len(candidate) >= Len(chain)

\* A bug: the length of the candidate is not looked at.
shorterToo(candidate, chain) == TRUE

\* The first test of receiveNewBlockchain.
longer(candidate, chain) == Len(candidate) > Len(chain)

\* A bug: the staged transactions are not re-enqueued.
requeuedNothing(pool, block) == pool

\* The pool after the transactions staged in the old latest block are
\* re-enqueued, in order.
requeued(pool, block) == pool \o block.data

\* receiveNewBlockchain.  Reading the data of the latest block throws when
\* the chain is empty (latestBlock() is undefined) or when that data is no
\* list (it has no map); nothing has been assigned by then.
receiveNewBlockchain(candidate) ==
    LET adopt == /\ longer(candidate, blockchain)
                 /\ getVerificationMetadata(candidate).valid
        throws == adopt /\ (\/ Len(blockchain) = 0
                            \/ ~latestBlock(blockchain).dataIsList)
    IN  /\ last' = [Op("receiveNewBlockchain",
                        IF adopt /\ throws THEN "threw"
                        ELSE IF adopt THEN "adopted"
                        ELSE IF Len(candidate) = Len(blockchain)
                             THEN "same length"
                        ELSE IF Len(candidate) < Len(blockchain)
                             THEN "shorter"
                        ELSE "invalid")
                  EXCEPT !.count = IF adopt /\ ~throws
                                   THEN Len(latestBlock(blockchain).data)
                                   ELSE 0]
        /\ IF adopt /\ ~throws
           THEN /\ transaction_pool' = pushedPool(
                       requeued(transaction_pool, latestBlock(blockchain)))
                /\ blockchain' = pushedChain(candidate)
                /\ transaction_map' =
                       getVerificationMetadata(candidate).transaction_map
           ELSE UNCHANGED <<transaction_pool, blockchain, transaction_map>>
        /\ UNCHANGED <<node_list, actively_mining, pc, batch, exports,
                       completed_exports, pre_flush>>

\* Util.waitForAll: resolved once every promise of the batch has settled,
\* whether fulfilled or rejected.
waitForAll(promises) == promises = <<>>

\* A bug: the toggle is not looked at.
idleNever(mining) == FALSE

\* The first test of computeHash.
idle(mining) == ~mining

\* A bug: the nonce skips a value.
incrementedTwice(block) == [block EXCEPT !.nonce = block.nonce + 2]

\* this.latestBlock().nonce++
incremented(block) == [block EXCEPT !.nonce = block.nonce + 1]

\* One connection is opened per node of the list.
openedExports(list) == [i \in 1..Len(list) |-> "connecting"]

\* computeHash, run when the flush has resolved.  Mining stops at MaxChain
\* blocks to keep the model finite.
computeHash ==
    /\ pc = "waitForAll"
    /\ waitForAll(batch)
    /\ IF idle(actively_mining)
       THEN /\ pc' = "delay"
            /\ last' = Op("computeHash", "idle")
            /\ UNCHANGED <<blockchain, exports, completed_exports>>
       ELSE /\ Len(blockchain) < MaxChain
            /\ LET block == incremented(latestBlock(blockchain))
               IN  /\ blockchain' = withLatest(blockchain, block)
                   /\ IF meetsTarget(block)
                      THEN /\ last' = Op("computeHash", "solved")
                           /\ exports' = openedExports(node_list)
                           /\ completed_exports' = 0
                           /\ pc' = "exporting"
                      ELSE /\ last' = Op("computeHash", "unsolved")
                           /\ pc' = "unblock"
                           /\ UNCHANGED <<exports, completed_exports>>
    /\ pre_flush' = <<>>
    /\ UNCHANGED <<transaction_pool, transaction_map, node_list,
                   actively_mining, batch>>

\* A bug: main() is called again after an error.
rescheduled == "unblock"

\* Where the promise chain of main() stands once its catch has run: the
\* error is logged and nothing calls main() again.
caught == "halted"

\* computeHash with the external hasher throwing: the nonce is incremented,
\* the promise is rejected, the call of main() is skipped and the catch at
\* the end of the chain runs.
computeHashThrows ==
    /\ pc = "waitForAll"
    /\ waitForAll(batch)
    /\ ~idle(actively_mining)
    /\ blockchain' = withLatest(blockchain,
                          incremented(latestBlock(blockchain)))
    /\ pc' = caught
    /\ last' = Op("computeHash", "threw")
    /\ pre_flush' = <<>>
    /\ UNCHANGED <<transaction_pool, transaction_map, node_list,
                   actively_mining, batch, exports, completed_exports>>

\* Util.delay(100) elapses and main() is called again.
delayElapsed ==
    /\ pc = "delay"
    /\ pc' = "unblock"
    /\ last' = Op("delayElapsed", "")
    /\ UNCHANGED <<transaction_pool, transaction_map, blockchain, node_list,
                   actively_mining, batch, exports, completed_exports,
                   pre_flush>>

\* The connect listener of net.createConnection: the export starts.
exportConnect(i) ==
    /\ i \in DOMAIN exports
    /\ exports[i] = "connecting"
    /\ exports' = [exports EXCEPT ![i] = "exporting"]
    /\ last' = Op("exportConnect", "")
    /\ UNCHANGED <<transaction_pool, transaction_map, blockchain, node_list,
                   actively_mining, pc, batch, completed_exports,
                   pre_flush>>

\* The connection fails: the connect listener never runs and nothing else
\* listens on the client.
exportFail(i) ==
    /\ i \in DOMAIN exports
    /\ exports[i] = "connecting"
    /\ exports' = [exports EXCEPT ![i] = "failed"]
    /\ last' = Op("exportFail", "")
    /\ UNCHANGED <<transaction_pool, transaction_map, blockchain, node_list,
                   actively_mining, pc, batch, completed_exports,
                   pre_flush>>

\* A bug: the first export to complete ends the wait.
finishedFirst(completed, list) == completed >= 1

\* The test of the callback of Message.exportBlocks.
finishedExporting(completed, list) == completed = Len(list)

\* The callback of Message.exportBlocks for one peer.
exportComplete(i) ==
    /\ i \in DOMAIN exports
    /\ exports[i] = "exporting"
    /\ IF finishedExporting(completed_exports + 1, node_list)
       THEN /\ last' = Op("exportComplete", "pushed")
            /\ blockchain' = pushedChain(blockchain)
            /\ transaction_pool' = pushedPool(transaction_pool)
            /\ pc' = "unblock"
            /\ exports' = <<>>
            /\ completed_exports' = 0
       ELSE /\ last' = Op("exportComplete", "counted")
            /\ exports' = [exports EXCEPT ![i] = "done"]
            /\ completed_exports' = completed_exports + 1
            /\ UNCHANGED <<blockchain, transaction_pool, pc>>
    /\ UNCHANGED <<transaction_map, node_list, actively_mining, batch,
                   pre_flush>>

Next ==
    \/ start
    \/ \E on \in BOOLEAN : setActivelyMining(on)
    \/ \E nodes \in NodeArgs : addNodes(nodes)
    \/ \E transaction \in NetworkTransactions :
          addTransactionToPool(transaction)
    \/ \E candidate \in Candidates : receiveNewBlockchain(candidate)
    \/ createGenesisIfNeeded
    \/ flushTransactionPool
    \/ \E i \in 1..Len(batch) : flushTransaction(i)
    \/ computeHash
    \/ computeHashThrows
    \/ delayElapsed
    \/ \E i \in 1..Len(exports) : exportConnect(i)
    \/ \E i \in 1..Len(exports) : exportFail(i)
    \/ \E i \in 1..Len(exports) : exportComplete(i)

Spec == Init /\ [][Next]_vars

-----------------------------------------------------------------------------
(* Claims.                                                                 *)

Count(x, s) == Cardinality({i \in DOMAIN s : s[i] = x})

Valid(candidate) == getVerificationMetadata(candidate).valid

\* C1: receiveNewBlockchain adopts a candidate only if it is strictly longer
\* than the current chain and the verifier reports it valid; a candidate
\* that is not strictly longer (equal length included) or that is invalid
\* leaves the chain, the transaction index and the pool unchanged.
C1_ReplacementMonotonicity ==
    [][last'.op = "receiveNewBlockchain" =>
       \A candidate \in Candidates :
          receiveNewBlockchain(candidate) =>
              /\ (Len(candidate) <= Len(blockchain) \/ ~Valid(candidate)) =>
                     UNCHANGED <<blockchain, transaction_map, transaction_pool>>
              /\ blockchain' # blockchain =>
                     Len(candidate) > Len(blockchain) /\ Valid(candidate)
      ]_vars

\* A valid candidate as long as the chain was received and ignored, with
\* transactions in the pool and in the index.
C1_Witness ==
    /\ last.op = "receiveNewBlockchain"
    /\ last.result = "same length"
    /\ Len(blockchain) = 2
    /\ transaction_pool # <<>>
    /\ transaction_map # {}

\* What C2 says of one call: the chain is the candidate and one fresh block,
\* the index is the verifier's, one new coinbase ends the pool.
AdoptionResult(candidate) ==
    /\ Len(blockchain') = Len(candidate) + 1
    /\ SubSeq(blockchain', 1, Len(candidate)) = candidate
    /\ latestBlock(blockchain').data = <<>>
    /\ latestBlock(blockchain').nonce = 0
    /\ latestBlock(blockchain').own
    /\ transaction_map' = getVerificationMetadata(candidate).transaction_map
    /\ transaction_pool' # <<>>
    /\ transaction_pool'[Len(transaction_pool')] = createNewCoin
    /\ Count(createNewCoin, transaction_pool') =
           Count(createNewCoin, transaction_pool)
           + (IF blockchain = <<>> THEN 0
              ELSE Count(createNewCoin, latestBlock(blockchain).data))
           + 1

C3_RequeueCompleteness ==
    [][last'.op = "receiveNewBlockchain" =>
       \A candidate \in Candidates :
          ( /\ receiveNewBlockchain(candidate)
            /\ blockchain' # blockchain ) =>
              transaction_pool' =
                  transaction_pool \o latestBlock(blockchain).data
                                   \o << createNewCoin >>
      ]_vars

\* A solved block awaiting its broadcast, with two transactions staged, was
\* replaced while the pool was not empty.
C3_Witness ==
    /\ last.op = "receiveNewBlockchain"
    /\ last.result = "adopted"
    /\ last.count = 2
    /\ pc = "exporting"
    /\ Len(transaction_pool) > 3

\* What C4 and its amendment share: a transaction of the batch is never
\* put back in the pool, and one the validator refuses, given the index and
\* the latest block at the moment it is validated, changes neither the
\* chain nor the index.
RefusedIsDropped(transaction) ==
    /\ transaction_pool' = transaction_pool
    /\ ( \/ ~latestBlock(blockchain).dataIsList
         \/ ~verify(transaction, transaction_map,
                    tentative(latestBlock(blockchain), transaction)) )
           => UNCHANGED <<blockchain, transaction_map>>

\* C4 as stated, for a flush that began past the genesis block: every
\* transaction of a drained pool that is appended to the latest block
\* satisfies the validator given the index and the latest block as they
\* were before the flush.
C4_PreFlushContext ==
    [][last'.op = "flushTransaction" =>
       \A i \in DOMAIN batch :
          flushTransaction(i) =>
              /\ RefusedIsDropped(batch[i])
              /\ (blockchain' # blockchain /\ pre_flush[2].tag # "GENESIS") =>
                     verify(batch[i], pre_flush[1],
                            tentative(pre_flush[2], batch[i]))
      ]_vars

\* C4, amended: every transaction of a drained pool that is appended to the
\* latest block satisfies the validator given the index and the latest
\* block at the moment of its own validation, and is then the last of that
\* block's data and in the index.
C4_FlushPurity ==
    [][last'.op = "flushTransaction" =>
       \A i \in DOMAIN batch :
          flushTransaction(i) =>
              /\ RefusedIsDropped(batch[i])
              /\ blockchain' # blockchain =>
                     /\ verify(batch[i], transaction_map,
                               tentative(latestBlock(blockchain), batch[i]))
                     /\ blockchain' = withLatest(blockchain,
                            tentative(latestBlock(blockchain), batch[i]))
                     /\ transaction_map' = transaction_map \cup {batch[i]}
      ]_vars

\* A flush has completed whose transaction was refused, on a latest block
\* that holds an accepted one.
C4_Witness ==
    /\ last.op = "flushTransaction"
    /\ last.result = "rejected"
    /\ last.tx = "t1"
    /\ batch = <<>>
    /\ latestBlock(blockchain).data = <<"NEW_COIN", "t1">>
    /\ transaction_map = {"NEW_COIN", "t1"}
    /\ transaction_pool = <<>>

\* An export opened for the last solve has not completed.
BroadcastPending ==
    /\ pc = "exporting"
    /\ \E i \in DOMAIN exports : exports[i] # "done"

\* The step completes the last export opened for the solve.
LastExportCompletes ==
    /\ last'.op = "exportComplete"
    /\ completed_exports + 1 = Len(exports)

\* C5 as stated, for a solve past the genesis block: from the solve until
\* every export opened for it has completed, no step makes the chain longer.
C5_NoGrowthDuringBroadcast ==
    [][(BroadcastPending /\ ~LastExportCompletes /\ Len(blockchain) > 1) =>
           Len(blockchain') <= Len(blockchain)]_vars

\* C5, amended: from the solve until every export opened for it has
\* completed, the chain grows only when receiveNewBlockchain adopts a
\* strictly longer valid candidate; the mining loop pushes no block.
C5_BroadcastBarrier ==
    [][(BroadcastPending /\ ~LastExportCompletes) =>
           \/ Len(blockchain') <= Len(blockchain)
           \/ /\ last'.op = "receiveNewBlockchain"
              /\ \E candidate \in Candidates :
                    /\ receiveNewBlockchain(candidate)
                    /\ Len(candidate) > Len(blockchain)
                    /\ Valid(candidate)]_vars

\* One of two exports has completed and a chain has been adopted meanwhile.
C5_Witness ==
    /\ pc = "exporting"
    /\ Len(exports) = 2
    /\ completed_exports = 1
    /\ last.op = "receiveNewBlockchain"
    /\ last.result = "adopted"

\* C6: a solve is followed by the push of a new block and the next cycle
\* when every opened export completes, whatever the peers, none included:
\* the loop never waits for the exports of a solve when none is left to
\* complete.
C6_SolveProgress ==
    ( /\ pc = "exporting"
      /\ Len(exports) = Len(node_list)
      /\ \A i \in DOMAIN exports : exports[i] # "failed" )
        => \E i \in DOMAIN exports : exports[i] \in {"connecting", "exporting"}

\* C7: a failed export counts as completed: once every export of a solve
\* has succeeded or failed, the loop is past the wait.
C7_FailureCounts ==
    ~ ( /\ pc = "exporting"
        /\ exports # <<>>
        /\ Len(exports) = Len(node_list)
        /\ \A i \in DOMAIN exports : exports[i] \in {"done", "failed"} )

\* C8: createGenesisIfNeeded on an empty chain leaves one genesis block of
\* this node and an empty index; on any other chain it changes neither; a
\* chain that is not empty has one genesis block, its first.
C8_GenesisIdempotence ==
    /\ [](blockchain # <<>> =>
             {i \in DOMAIN blockchain : blockchain[i].tag = "GENESIS"} = {1})
    /\ [][last'.op = "createGenesisIfNeeded" =>
             IF blockchain = <<>>
             THEN /\ Len(blockchain') = 1
                  /\ blockchain'[1].tag = "GENESIS"
                  /\ blockchain'[1].own
                  /\ blockchain'[1].data = <<>>
                  /\ transaction_map' = {}
             ELSE UNCHANGED <<blockchain, transaction_map>>]_vars

\* The bootstrap ran a second time on the chain the first one created.
C8_Witness ==
    /\ last.op = "createGenesisIfNeeded"
    /\ last.result = "kept"
    /\ Len(blockchain) = 1
    /\ blockchain[1].own

IsPrefix(s, t) == Len(s) <= Len(t) /\ SubSeq(t, 1, Len(s)) = s

\* C9: no two peers of the list have the same address and port; no step
\* removes or reorders a peer; addNodes with peers that are all in the list
\* leaves it unchanged.
C9_PeerDedup ==
    /\ [](\A i, j \in DOMAIN node_list :
             (node_list[i].address = node_list[j].address
                 /\ node_list[i].port = node_list[j].port) => i = j)
    /\ [][/\ IsPrefix(node_list, node_list')
          /\ last'.op = "addNodes" =>
             \A nodes \in NodeArgs :
                ( /\ addNodes(nodes)
                  /\ \A k \in DOMAIN nodes :
                        \E i \in DOMAIN node_list :
                            /\ nodes[k].address = node_list[i].address
                            /\ nodes[k].port = node_list[i].port )
                    => node_list' = node_list]_vars

\* A call that names a peer twice has been made, and a later call added
\* nothing.
C9_Witness ==
    /\ last.op = "addNodes"
    /\ last.result = "unchanged"
    /\ node_list = <<NodeA, NodeB>>

\* C10: with actively_mining false the hashing step changes neither the
\* chain (nonce, data, length) nor the index nor the pool, opens no export,
\* and leaves the loop in its delay.
C10_IdleHashingFrame ==
    [][(last'.op = "computeHash" /\ ~actively_mining) =>
           /\ UNCHANGED <<blockchain, transaction_map, transaction_pool,
                          exports, completed_exports>>
           /\ pc' = "delay"]_vars

\* The hashing step ran idle on a block already hashed once, with a peer
\* known.
C10_Witness ==
    /\ last.op = "computeHash"
    /\ last.result = "idle"
    /\ node_list # <<>>
    /\ latestBlock(blockchain).nonce > 0

\* The steps of the promise chain of main(), as pairs of positions.
CycleOrder ==
    { <<"constructed", "unblock">>, <<"unblock", "flush">>,
      <<"flush", "waitForAll">>, <<"waitForAll", "delay">>,
      <<"waitForAll", "exporting">>, <<"waitForAll", "unblock">>,
      <<"waitForAll", "halted">>, <<"delay", "unblock">>,
      <<"exporting", "unblock">> }

\* C11: in every cycle the bootstrap, the flush and the hashing step run in
\* that order; the hashing step (increment or idle delay) begins only when
\* no validation of the drained batch is pending; a validation, whether it
\* accepts, refuses or throws, settles one transaction of the batch and
\* leaves the others pending.
C11_CycleOrdering ==
    /\ [](batch # <<>> => pc = "waitForAll")
    /\ [][/\ pc' # pc => <<pc, pc'>> \in CycleOrder
          /\ last'.op = "createGenesisIfNeeded" =>
                 pc = "unblock" /\ pc' = "flush"
          /\ last'.op = "flushTransactionPool" =>
                 pc = "flush" /\ pc' = "waitForAll"
          /\ last'.op = "computeHash" =>
                 pc = "waitForAll" /\ batch = <<>> /\ batch' = <<>>
          /\ last'.op = "flushTransaction" =>
                 /\ pc' = pc
                 /\ \E i \in DOMAIN batch :
                        /\ batch[i] = last'.tx
                        /\ batch' = SubSeq(batch, 1, i - 1)
                                        \o SubSeq(batch, i + 1, Len(batch))
         ]_vars

\* A validation refused its transaction while another of the same batch
\* was pending.
C11_Witness ==
    /\ last.op = "flushTransaction"
    /\ last.result = "rejected"
    /\ pc = "waitForAll"
    /\ Len(batch) = 1

\* A step of an inbound handler or of the runtime toggle.
InboundStep ==
    last'.op \in {"addTransactionToPool", "receiveNewBlockchain", "addNodes",
                  "setActivelyMining"}

\* C12: an error that escapes the hashing step is caught at the end of the
\* chain of main(): no step of the mining loop runs afterwards, and the
\* inbound handlers still run.
C12_LoopHalts ==
    /\ [][(last'.op = "computeHash" /\ last'.result = "threw") =>
              pc' = "halted"]_vars
    /\ [][pc = "halted" => (pc' = "halted" /\ InboundStep)]_vars
    /\ []((pc = "halted" /\ Len(transaction_pool) < MaxPool) =>
              ENABLED (\E transaction \in NetworkTransactions :
                          addTransactionToPool(transaction)))
    /\ [](pc = "halted" =>
              ENABLED (\E candidate \in Candidates :
                          receiveNewBlockchain(candidate)))

\* After the loop halted a transaction was pooled and a chain adopted.
C12_Witness ==
    /\ pc = "halted"
    /\ last.op = "receiveNewBlockchain"
    /\ last.result = "adopted"
    /\ "t1" \in SeqToSet(transaction_pool)

\* C13: flushTransactionPool captures the whole pool as the batch and
\* empties the pool in one step, when no validation of an earlier batch is
\* pending; only that step removes from the pool and only a validation
\* removes from the batch, one transaction each time; what arrives during a
\* flush is appended to the pool and leaves the batch alone.
C13_AtomicDrain ==
    /\ [](pc = "flush" => batch = <<>>)
    /\ [][/\ last'.op = "flushTransactionPool" =>
                 /\ batch' = transaction_pool
                 /\ transaction_pool' = <<>>
          /\ last'.op # "flushTransactionPool" =>
                 IsPrefix(transaction_pool, transaction_pool')
          /\ last'.op = "flushTransaction" =>
                 /\ Len(batch') = Len(batch) - 1
                 /\ transaction_pool' = transaction_pool
          /\ last'.op \notin {"flushTransactionPool", "flushTransaction"} =>
                 batch' = batch
          /\ last'.op = "addTransactionToPool" =>
                 Len(transaction_pool') = Len(transaction_pool) + 1
         ]_vars

\* A transaction arrived while a validation of the running flush was
\* pending, and waits in the fresh pool.
C13_Witness ==
    /\ last.op = "addTransactionToPool"
    /\ pc = "waitForAll"
    /\ batch = <<"t1">>
    /\ transaction_pool = <<"t1">>

\* C14: in every state between two callbacks (between the validations of
\* a flush, during the idle delay, during a broadcast, between cycles) the
\* index holds exactly the transactions in the data of the blocks of the
\* chain; a replacement in the middle of a flush included.
C14_ChainIndexPairing ==
    transaction_map = ChainTransactions(blockchain)

\* A chain that commits "t1" was adopted while the validation of "t1" of
\* the running flush was pending.
C14_Witness ==
    /\ last.op = "receiveNewBlockchain"
    /\ last.result = "adopted"
    /\ pc = "waitForAll"
    /\ batch = <<"t1">>
    /\ transaction_map = {"t1"}

\* C15: the push of a solve waits for the exports opened for that solve,
\* whatever addNodes does meanwhile: once every export opened for the solve
\* has completed, the block has been pushed and the loop has resumed.
C15_PushAtLastExport ==
    ~ ( /\ pc = "exporting"
        /\ exports # <<>>
        /\ \A i \in DOMAIN exports : exports[i] = "done" )

\* The step is a hashing step with mining enabled.
HashingStep == last'.op = "computeHash" /\ actively_mining

\* The step keeps the blocks of the chain (it is no adoption).
KeepsBlocks ==
    ~ (last'.op = "receiveNewBlockchain" /\ last'.result = "adopted")

\* C16: a hashing step with mining enabled raises the nonce of the latest
\* block by one and tests the block with that nonce; the nonce of a block
\* never decreases, and changes only in such a step, for the latest block,
\* before it is solved: not with mining disabled, not in a flush, not in
\* addTransactionToPool, not during the broadcast nor below the latest
\* block.
C16_NonceStepping ==
    [][/\ HashingStep =>
             /\ Len(blockchain') = Len(blockchain)
             /\ latestBlock(blockchain').nonce =
                    latestBlock(blockchain).nonce + 1
             /\ last'.result = "solved" =>
                    meetsTarget(latestBlock(blockchain'))
             /\ last'.result = "unsolved" =>
                    ~meetsTarget(latestBlock(blockchain'))
       /\ KeepsBlocks =>
             \A i \in DOMAIN blockchain :
                /\ blockchain'[i].nonce >= blockchain[i].nonce
                /\ blockchain'[i].nonce # blockchain[i].nonce =>
                       /\ HashingStep
                       /\ i = Len(blockchain)
                       /\ pc = "waitForAll"
      ]_vars

\* A block was hashed twice: unsolved with nonce 1, solved with nonce 2.
C16_Witness ==
    /\ last.op = "computeHash"
    /\ last.result = "solved"
    /\ latestBlock(blockchain).nonce = 2

\* C17: the chain never gets shorter and, once bootstrapped, is never
\* empty; the push after a broadcast makes it one block longer, an adoption
\* makes it one block longer than the candidate, which is longer than
\* before, the bootstrap of an empty chain makes it one block long, and no
\* other step changes its length.
C17_LengthMonotone ==
    [][/\ Len(blockchain') >= Len(blockchain)
       /\ (last'.op = "exportComplete" /\ last'.result = "pushed") =>
              Len(blockchain') = Len(blockchain) + 1
       /\ (last'.op = "receiveNewBlockchain" /\ last'.result = "adopted") =>
              \E candidate \in Candidates :
                 /\ receiveNewBlockchain(candidate)
                 /\ Len(blockchain') = Len(candidate) + 1
                 /\ Len(blockchain') > Len(blockchain) + 1
       /\ Len(blockchain') # Len(blockchain) =>
              \/ last'.op = "exportComplete" /\ last'.result = "pushed"
              \/ last'.op = "receiveNewBlockchain"
                    /\ last'.result = "adopted"
              \/ last'.op = "createGenesisIfNeeded"
                    /\ blockchain = <<>> /\ Len(blockchain') = 1
      ]_vars

\* The node pushed a block on a chain it had adopted and extended.
C17_Witness ==
    /\ last.op = "exportComplete"
    /\ last.result = "pushed"
    /\ Len(blockchain) = 5
    /\ ~blockchain[1].own

\* Message.exportBlocks(this, client, ...), called by the connect listener:
\* the chain sent to the peer is the chain of the miner at that moment.
exportedChain == blockchain

\* C18: the chain exported to a peer after a solve has as its latest block
\* the block that met the target, whatever chain arrived between the solve
\* and the connection.
C18_ExportsSolvedTip ==
    [][last'.op = "exportConnect" =>
           meetsTarget(latestBlock(exportedChain))]_vars

\* C19: every block of the chain below the latest one meets the target: it
\* came with an adopted candidate or was solved by this node before the
\* next block was pushed on it.
C19_SolvedBelowTip ==
    \A i \in DOMAIN blockchain :
        i < Len(blockchain) => meetsTarget(blockchain[i])

\* A callback of the mining loop: of the chain of main() or of an export.
LoopStep ==
    \/ createGenesisIfNeeded
    \/ flushTransactionPool
    \/ \E i \in 1..Len(batch) : flushTransaction(i)
    \/ computeHash
    \/ delayElapsed
    \/ \E i \in 1..Len(exports) : exportConnect(i)
    \/ \E i \in 1..Len(exports) : exportComplete(i)

\* The loop was started, no error has halted it, no export has failed, and
\* the hashing step is not one the bound on the chain leaves out.
LoopShouldRun ==
    /\ pc \notin {"constructed", "halted"}
    /\ \A i \in DOMAIN exports : exports[i] # "failed"
    /\ (pc = "waitForAll" /\ batch = <<>> /\ actively_mining) =>
           Len(blockchain) < MaxChain

\* C20: with every export completing, a transaction in the pool is drained
\* by a later flush: while a transaction waits in the pool the mining loop
\* has a callback left to run, whether the last cycle was solved or not and
\* whether mining is enabled or not.
C20_PoolIsDrained ==
    (LoopShouldRun /\ transaction_pool # <<>>) => ENABLED LoopStep

====
